---- MODULE Spec2Model ----
(***************************************************************************)
(* A model of the moomberg_alert repository: the event filter and feed     *)
(* fetch of test_fetch.py, and the Telegram heartbeat bot of bot.py        *)
(* (configuration, initialization, scheduler, hourly handler, /trigger).   *)
(*                                                                         *)
(* Strings whose characters matter (titles, topics) are sequences of       *)
(* one-character strings; strings that are only compared for equality      *)
(* (a country code) are TLA+ strings.                                      *)
(***************************************************************************)
EXTENDS Integers, Sequences, FiniteSets, TLC

VARIABLES
  \* ---- test_fetch.py: filter_events ----
  events,         \* the list handed to filter_events
  filtered,       \* the list it returned
  filter_raised,  \* whether the call raised
  fpc,            \* "ready" before the call, "done" after it
  \* ---- the feed cache (get_events) over test_fetch.py: fetch_events ----
  cache_events,   \* CacheEntry.events
  fetched_at,     \* CacheEntry.fetched_at, NEVER before the first success
  now,            \* the clock, in seconds
  ticks,          \* how many times the model advanced the clock
  result,         \* what the last call returned
  call_raised,    \* whether the last call raised
  requests_made,  \* HTTP requests the last call made
  cache_status,   \* the last call's log entry: "hit", "miss", "failure"
  last_call,      \* "none", "get_events" or "fetch_events"
  responses,      \* what the server answers to the call's 1st, 2nd request
  \* ---- bot.py ----
  env,            \* the process environment: token, chat, url
  BOT_TOKEN, CHAT_ID, WEBHOOK_URL,
  telegram_app,   \* Absent, or the Application
  scheduler,      \* Absent, or the BackgroundScheduler
  init_pc,        \* where the module's load stands: "config", "telegram",
                  \* "scheduler", "startup", "serving", or "failed"
  pc,             \* per thread, where its task invocation stands:
                  \* "idle", "send" (loop made, send pending), "close"
  outcome,        \* per thread, its last invocation: "none", "running",
                  \* "returned", "raised"
  att,            \* per thread, send attempts of its last invocation
  send_result,    \* per thread, "none", "ok" or "fail"
  err_logged,     \* per thread, whether a send failure was logged
  sent_to,        \* per thread, the chat the send went to
  sent_text,      \* per thread, the message built
  http_resp,      \* per request thread, the last /trigger response
  job_error_logged, \* whether the scheduler's executor logged a job exception
  \* ---- the message chunker ----
  c_header,       \* the header text handed to chunk
  c_events,       \* the formatted events handed to chunk
  c_messages,     \* the texts handed to the transport, in order
  c_pc,           \* "ready" before the dispatch, "done" after it
  \* ---- the scheduled pipeline: daily and weekly handler ----
  p_today,        \* the invocation's local calendar day
  p_handler,      \* the handler that ran last: "none", "daily", "weekly"
  p_events,       \* what get_events gave it
  p_formatted,    \* the events it formatted, as display texts
  p_dispatched,   \* the texts it dispatched to the broadcast chat
  p_raised,       \* whether an exception reached the handler's boundary
  p_runs,         \* how many times the timer has invoked a handler
  \* ---- bot.py: the /webhook route and the process's lifecycle ----
  wh,             \* per request thread of /webhook: the request's progress
  init_steps,     \* the steps initialize_all has begun, in order
  cleanup_calls,  \* how many times cleanup has been called
  cleanup_raised, \* whether a call of cleanup raised
  cleanup_log     \* what the last call of cleanup did

bvars == <<env, BOT_TOKEN, CHAT_ID, WEBHOOK_URL, telegram_app, scheduler,
           init_pc, pc, outcome, att, send_result, err_logged, sent_to,
           sent_text, http_resp, job_error_logged>>
fvars == <<events, filtered, filter_raised, fpc>>
cvars == <<cache_events, fetched_at, now, ticks, result, call_raised,
           requests_made, cache_status, last_call, responses>>
pvars == <<c_header, c_events, c_messages, c_pc, p_today, p_handler, p_events,
           p_formatted, p_dispatched, p_raised, p_runs>>
lvars == <<init_steps, cleanup_calls, cleanup_raised, cleanup_log>>
vars == <<fvars, cvars, bvars, pvars, wh, lvars>>

\* Python's None.  No country code or configuration value of the model equals it.
None == "None"

(***************************************************************************)
(* str.lower(), str.__contains__ and dict.get                              *)
(***************************************************************************)
UpperCase == <<"A","B","C","D","E","F","G","H","I","J","K","L","M",
               "N","O","P","Q","R","S","T","U","V","W","X","Y","Z">>
LowerCase == <<"a","b","c","d","e","f","g","h","i","j","k","l","m",
               "n","o","p","q","r","s","t","u","v","w","x","y","z">>

\* one character of str.lower(): an ASCII capital maps to its small letter
lower_char(c) ==
  IF \E i \in 1..Len(UpperCase) : UpperCase[i] = c
  THEN LowerCase[CHOOSE i \in 1..Len(UpperCase) : UpperCase[i] = c]
  ELSE c

\* s.lower()
str_lower(s) == [i \in 1..Len(s) |-> lower_char(s[i])]

\* sub in s  (unanchored substring test; the empty string is in every string)
str_in(sub, s) ==
  \E k \in 0..(Len(s) - Len(sub)) :
     \A j \in 1..Len(sub) : s[k + j] = sub[j]

\* d.get(key, default)
dict_get(d, key, default) == IF key \in DOMAIN d THEN d[key] ELSE default

(***************************************************************************)
(* test_fetch.py: TOPICS                                                   *)
(***************************************************************************)
TOPICS ==
  << <<"U","n","e","m","p","l","o","y","m","e","n","t"," ","R","a","t","e">>,
     <<"U","n","e","m","p","l","o","y","m","e","n","t"," ","C","l","a","i","m","s">>,
     <<"A","D","P">>,
     <<"N","o","n","-","F","a","r","m"," ","E","m","p","l","o","y","m","e","n","t"," ","C","h","a","n","g","e">>,
     <<"G","D","P">>,
     <<"C","o","n","s","u","m","e","r"," ","P","r","i","c","e"," ","I","n","d","e","x">>,
     <<"C","P","I">>,
     <<"I","S","M"," ","S","e","r","v","i","c","e","s"," ","P","M","I">>,
     <<"I","S","M"," ","M","a","n","u","f","a","c","t","u","r","i","n","g"," ","P","M","I">>,
     <<"J","O","L","T","S">>,
     <<"P","r","o","d","u","c","e","r"," ","P","r","i","c","e"," ","I","n","d","e","x">>,
     <<"P","P","I">>,
     <<"R","e","t","a","i","l"," ","S","a","l","e","s">>,
     <<"F","l","a","s","h"," ","S","e","r","v","i","c","e","s"," ","P","M","I">>,
     <<"F","O","M","C">>,
     <<"F","e","d"," ","I","n","t","e","r","e","s","t"," ","R","a","t","e"," ","D","e","c","i","s","i","o","n">> >>

(***************************************************************************)
(* test_fetch.py: filter_events                                            *)
(***************************************************************************)
\* the inner loop "for topic in TOPICS: if topic.lower() in title: ... break"
RECURSIVE topic_loop(_, _)
topic_loop(title, i) ==
  IF i > Len(TOPICS) THEN FALSE
  ELSE IF str_in(str_lower(TOPICS[i]), title) THEN TRUE
  ELSE topic_loop(title, i + 1)

\* the loop body's decision for one event, as the code takes it
event_matched(event) ==
  IF dict_get(event, "country", None) # "USD" THEN FALSE
  ELSE topic_loop(str_lower(dict_get(event, "title", <<>>)), 1)

\* the outer loop "for event in events", appending to filtered
RECURSIVE filter_loop(_, _, _)
filter_loop(evs, i, acc) ==
  IF i > Len(evs) THEN acc
  ELSE filter_loop(evs, i + 1,
                   IF event_matched(evs[i]) THEN Append(acc, evs[i]) ELSE acc)

\* plausible bugs of filter_events
\* the title is not lower-cased before the test
filter_events_case_sensitive(evs) ==
  [raised |-> FALSE,
   value  |-> SelectSeq(evs, LAMBDA e :
                 /\ dict_get(e, "country", None) = "USD"
                 /\ \E i \in 1..Len(TOPICS) :
                       str_in(str_lower(TOPICS[i]), dict_get(e, "title", <<>>)))]

\* an event already kept is not kept again
RECURSIVE dedup_loop(_, _, _)
dedup_loop(evs, i, acc) ==
  IF i > Len(evs) THEN acc
  ELSE dedup_loop(evs, i + 1,
                  IF event_matched(evs[i]) /\ ~(\E j \in 1..Len(acc) : acc[j] = evs[i])
                  THEN Append(acc, evs[i]) ELSE acc)

filter_events_dedup(evs) == [raised |-> FALSE, value |-> dedup_loop(evs, 1, <<>>)]

\* the country is not looked at
filter_events_any_country(evs) ==
  [raised |-> FALSE,
   value  |-> SelectSeq(evs, LAMBDA e :
                 topic_loop(str_lower(dict_get(e, "title", <<>>)), 1))]

\* event['title'] instead of event.get('title', ''): KeyError on a USD event
\* that has no title
filter_events_subscript(evs) ==
  IF \E i \in 1..Len(evs) :
        /\ dict_get(evs[i], "country", None) = "USD"
        /\ "title" \notin DOMAIN evs[i]
  THEN [raised |-> TRUE, value |-> <<>>]
  ELSE [raised |-> FALSE, value |-> filter_loop(evs, 1, <<>>)]

\* filter_events(events): no statement of it raises on events of the data
\* model (dict.get never raises, the title is a string)
filter_events(evs) == [raised |-> FALSE, value |-> filter_loop(evs, 1, <<>>)]

(***************************************************************************)
(* The inputs of the filter: events of the feed                            *)
(***************************************************************************)
MaxLen == 2

\* the events the model feeds the filter with
EventPool ==
  { [country |-> "USD", title |-> <<"C","o","r","e"," ","C","P","I"," ","m","/","m">>],
    [country |-> "USD", title |-> <<"c","p","i"," ","y","/","y">>],
    [country |-> "USD", title |-> <<"A","D","P"," ","N","o","n","-","F","a","r","m"," ","E","m","p","l","o","y","m","e","n","t"," ","C","h","a","n","g","e">>],
    [country |-> "USD", title |-> <<"C","P"," ","I">>],
    [country |-> "USD", title |-> <<"E","C","B"," ","R","a","t","e">>],
    [country |-> "USD", title |-> <<>>],
    [country |-> "EUR", title |-> <<"C","o","r","e"," ","C","P","I"," ","m","/","m">>],
    [country |-> "usd", title |-> <<"c","p","i"," ","y","/","y">>],
    [country |-> "USD"],
    [country |-> "EUR"],
    [title |-> <<"F","O","M","C">>] }

RECURSIVE SeqsUpTo(_, _)
SeqsUpTo(S, n) ==
  IF n = 0 THEN {<<>>}
  ELSE LET shorter == SeqsUpTo(S, n - 1)
       IN  shorter \cup { Append(s, x) : s \in shorter, x \in S }

(***************************************************************************)
(* test_fetch.py: fetch_events, and the feed server it talks to            *)
(***************************************************************************)
\* requests.get raised (no connection, timeout): there is no response
NetworkError == [kind |-> "network_error"]

\* a response: its final status (requests follows redirects itself) and
\* its body, which holds a JSON list of events or does not parse
HttpResponse(status, body) == [kind |-> "http", status |-> status, body |-> body]
JsonBody(feed) == [valid |-> TRUE, json |-> feed]
MalformedBody == [valid |-> FALSE]

Feeds ==
  { <<>>,
    << [country |-> "USD", title |-> <<"c","p","i"," ","y","/","y">>] >>,
    << [country |-> "EUR", title |-> <<"E","C","B"," ","R","a","t","e">>] >> }

Responses ==
  { NetworkError,
    HttpResponse(404, MalformedBody),
    HttpResponse(503, JsonBody(<<>>)),
    HttpResponse(200, MalformedBody) }
    \cup { HttpResponse(200, JsonBody(f)) : f \in Feeds }

\* what the server would answer to a second request of the same call
Retries ==
  { NetworkError,
    HttpResponse(200, JsonBody(<< [country |-> "USD", title |-> <<"c","p","i"," ","y","/","y">>] >>)) }

\* response.raise_for_status(): HTTPError for a 4xx or 5xx status
raise_for_status(r) == 400 <= r.status /\ r.status < 600

\* plausible bugs of fetch_events
\* a failed request is tried once more
fetch_events_retry(resps) ==
  LET try(r) == IF r.kind = "network_error" \/ raise_for_status(r) \/ ~r.body.valid
                THEN [raised |-> TRUE, value |-> <<>>]
                ELSE [raised |-> FALSE, value |-> r.body.json]
      first == try(resps[1])
      second == try(resps[2])
  IN  IF first.raised
      THEN [raised |-> second.raised, value |-> second.value, requests |-> 2]
      ELSE [raised |-> FALSE, value |-> first.value, requests |-> 1]

\* raise_for_status() is left out: the body of an error response is parsed
fetch_events_no_status_check(resps) ==
  LET r == resps[1]
  IN  IF r.kind = "network_error" \/ ~r.body.valid
      THEN [raised |-> TRUE, value |-> <<>>, requests |-> 1]
      ELSE [raised |-> FALSE, value |-> r.body.json, requests |-> 1]

\* fetch_events(): one requests.get, raise_for_status, response.json();
\* any of the three may raise, and nothing here catches it
fetch_events(resps) ==
  LET r == resps[1]
  IN  IF r.kind = "network_error"
      THEN [raised |-> TRUE, value |-> <<>>, requests |-> 1]
      ELSE IF raise_for_status(r)
      THEN [raised |-> TRUE, value |-> <<>>, requests |-> 1]
      ELSE IF ~r.body.valid
      THEN [raised |-> TRUE, value |-> <<>>, requests |-> 1]
      ELSE [raised |-> FALSE, value |-> r.body.json, requests |-> 1]

(***************************************************************************)
(* The feed cache: get_events over fetch_events                            *)
(***************************************************************************)
TTL == 3600
NEVER == -1

\* the cache may be served: it was fetched less than TTL ago and is not empty
cache_fresh(evs, f_at, t) == f_at # NEVER /\ t - f_at < TTL /\ evs # <<>>

\* a plausible bug of get_events: the age test is the wrong way round
get_events_inverted(evs, f_at, t, resps) ==
  IF f_at # NEVER /\ t - f_at > TTL /\ evs # <<>>
  THEN [events |-> evs, fetched_at |-> f_at, result |-> evs,
        requests |-> 0, status |-> "hit"]
  ELSE LET f == fetch_events(resps)
       IN  IF f.raised
           THEN [events |-> evs, fetched_at |-> f_at, result |-> <<>>,
                 requests |-> f.requests, status |-> "failure"]
           ELSE [events |-> f.value, fetched_at |-> t, result |-> f.value,
                 requests |-> f.requests, status |-> "miss"]

\* get_events(): the cached events while fresh; otherwise one fetch, whose
\* success replaces the cache and stamps it, and whose failure is logged,
\* leaves the cache alone and yields the empty list
get_events(evs, f_at, t, resps) ==
  IF cache_fresh(evs, f_at, t)
  THEN [events |-> evs, fetched_at |-> f_at, result |-> evs,
        requests |-> 0, status |-> "hit"]
  ELSE LET f == fetch_events(resps)
       IN  IF f.raised
           THEN [events |-> evs, fetched_at |-> f_at, result |-> <<>>,
                 requests |-> f.requests, status |-> "failure"]
           ELSE [events |-> f.value, fetched_at |-> t, result |-> f.value,
                 requests |-> f.requests, status |-> "miss"]

MaxTicks == 3
\* the clock's steps: a second, a second short of the TTL, the TTL
TickSteps == {1, TTL - 1, TTL}

CacheInit ==
  /\ cache_events = <<>>
  /\ fetched_at = NEVER
  /\ now = 0
  /\ ticks = 0
  /\ result = <<>>
  /\ call_raised = FALSE
  /\ requests_made = 0
  /\ cache_status = "none"
  /\ last_call = "none"
  /\ responses = <<NetworkError, NetworkError>>

\* a pipeline invocation asks the cache for the events
GetEvents ==
  \E r1 \in Responses, r2 \in Retries :
    LET g == get_events(cache_events, fetched_at, now, <<r1, r2>>)
    IN  /\ cache_events' = g.events
        /\ fetched_at' = g.fetched_at
        /\ result' = g.result
        /\ call_raised' = FALSE
        /\ requests_made' = g.requests
        /\ cache_status' = g.status
        /\ last_call' = "get_events"
        /\ responses' = <<r1, r2>>
        /\ UNCHANGED <<fvars, bvars, pvars, wh, lvars, now, ticks>>

\* the script's "events = fetch_events()" inside its try
FetchEvents ==
  \E r1 \in Responses, r2 \in Retries :
    LET f == fetch_events(<<r1, r2>>)
    IN  /\ result' = f.value
        /\ call_raised' = f.raised
        /\ requests_made' = f.requests
        /\ cache_status' = "none"
        /\ last_call' = "fetch_events"
        /\ responses' = <<r1, r2>>
        /\ UNCHANGED <<fvars, bvars, pvars, wh, lvars, cache_events, fetched_at, now, ticks>>

\* time passes between invocations
Tick ==
  /\ ticks < MaxTicks
  /\ \E d \in TickSteps : now' = now + d
  /\ ticks' = ticks + 1
  /\ UNCHANGED <<fvars, bvars, pvars, wh, lvars, cache_events, fetched_at, result, call_raised,
                 requests_made, cache_status, last_call, responses>>

(***************************************************************************)
(* bot.py: configuration                                                   *)
(***************************************************************************)
\* An optional value is a sequence of length at most one: Absent is Python's
\* None (an unset environment variable, an unassigned global).
Absent == <<>>
Some(x) == <<x>>

Digits == <<"0","1","2","3","4","5","6","7","8","9">>
is_digit(c) == \E i \in 1..Len(Digits) : Digits[i] = c
digit_value(c) == (CHOOSE i \in 1..Len(Digits) : Digits[i] = c) - 1

\* whether int(s) accepts s: an optional sign, then digits
int_accepts(s) ==
  LET body == IF Len(s) > 0 /\ s[1] \in {"-", "+"} THEN Tail(s) ELSE s
  IN  Len(body) > 0 /\ \A i \in 1..Len(body) : is_digit(body[i])

RECURSIVE digits_value(_)
digits_value(s) ==
  IF s = <<>> THEN 0
  ELSE 10 * digits_value(SubSeq(s, 1, Len(s) - 1)) + digit_value(s[Len(s)])

\* int(s), for an s that int accepts
int_of(s) ==
  IF s[1] = "-" THEN 0 - digits_value(Tail(s))
  ELSE IF s[1] = "+" THEN digits_value(Tail(s))
  ELSE digits_value(s)

\* "not x" of an optional string: None and the empty string are falsy
falsy(opt, empty) == opt = Absent \/ opt[1] = empty

\* a plausible bug of init_config: a chat id that is no integer is logged,
\* not raised
init_config_lenient(e) ==
  IF falsy(e.token, "")
  THEN [raised |-> TRUE, BOT_TOKEN |-> e.token, CHAT_ID |-> Absent,
        WEBHOOK_URL |-> Absent]
  ELSE [raised |-> FALSE, BOT_TOKEN |-> e.token,
        CHAT_ID |-> IF ~falsy(e.chat, <<>>) /\ int_accepts(e.chat[1])
                    THEN Some(int_of(e.chat[1])) ELSE Absent,
        WEBHOOK_URL |-> IF falsy(e.url, "") THEN Absent
                        ELSE Some([base |-> e.url[1], path |-> "/webhook"])]

\* init_config(): the globals it leaves, and whether it raised ValueError
init_config(e) ==
  IF falsy(e.token, "")
  THEN [raised |-> TRUE, BOT_TOKEN |-> e.token, CHAT_ID |-> Absent,
        WEBHOOK_URL |-> Absent]
  ELSE IF falsy(e.chat, <<>>)
  THEN [raised |-> TRUE, BOT_TOKEN |-> e.token, CHAT_ID |-> Absent,
        WEBHOOK_URL |-> Absent]
  ELSE IF ~int_accepts(e.chat[1])
  THEN [raised |-> TRUE, BOT_TOKEN |-> e.token, CHAT_ID |-> Absent,
        WEBHOOK_URL |-> Absent]
  ELSE [raised |-> FALSE, BOT_TOKEN |-> e.token,
        CHAT_ID |-> Some(int_of(e.chat[1])),
        WEBHOOK_URL |-> IF falsy(e.url, "") THEN Absent
                        ELSE Some([base |-> e.url[1], path |-> "/webhook"])]

\* the environments the process may start in
Envs ==
  [token : {Absent, Some(""), Some("123:abc")},
   chat  : {Absent, Some(<<>>), Some(<<"a","b","c">>), Some(<<"4","2">>),
            Some(<<"-","1","0","0","7">>)},
   url   : {Absent, Some("https://bot.example")}]

(***************************************************************************)
(* bot.py: send_telegram_message and the tasks                             *)
(***************************************************************************)
Threads == {"main", "sched", "http1", "http2"}
HttpThreads == {"http1", "http2"}

\* a plausible bug of send_telegram_message: a failed send is tried again
send_telegram_message_retry(chat, deliveries) ==
  IF deliveries[1]
  THEN [success |-> TRUE, attempts |-> 1, error_logged |-> FALSE, to |-> chat]
  ELSE [success |-> deliveries[2], attempts |-> 2,
        error_logged |-> ~deliveries[2], to |-> chat]

\* send_telegram_message(text): one bot.send_message to CHAT_ID; True, or
\* False after logging the exception.  deliveries[i] is whether the
\* transport would accept the i-th attempt.
send_telegram_message(chat, deliveries) ==
  IF deliveries[1]
  THEN [success |-> TRUE, attempts |-> 1, error_logged |-> FALSE, to |-> chat]
  ELSE [success |-> FALSE, attempts |-> 1, error_logged |-> TRUE, to |-> chat]

\* hourly_task / startup_task up to the send: the message is built and the
\* event loop made; asyncio.new_event_loop() may raise (loop_ok is FALSE),
\* and neither task catches it
task_begin(t, text, loop_ok) ==
  /\ pc' = [pc EXCEPT ![t] = IF loop_ok THEN "send" ELSE "idle"]
  /\ outcome' = [outcome EXCEPT ![t] = IF loop_ok THEN "running" ELSE "raised"]
  /\ att' = [att EXCEPT ![t] = 0]
  /\ send_result' = [send_result EXCEPT ![t] = "none"]
  /\ err_logged' = [err_logged EXCEPT ![t] = FALSE]
  /\ sent_to' = [sent_to EXCEPT ![t] = Absent]
  /\ sent_text' = [sent_text EXCEPT ![t] = text]

\* the request threads that serve POST /webhook
WebhookThreads == {"wh1", "wh2"}

\* a request thread with no request yet
WhIdle ==
  [pc |-> "idle", cmd |-> "none", loop |-> "none", exc |-> FALSE,
   resp |-> "none", log |-> <<>>, att |-> 0, send |-> "none",
   sent_to |-> Absent, handler_err |-> FALSE, logged |-> FALSE]

BotInit ==
  /\ env \in Envs
  /\ BOT_TOKEN = Absent
  /\ CHAT_ID = Absent
  /\ WEBHOOK_URL = Absent
  /\ telegram_app = Absent
  /\ scheduler = Absent
  /\ init_pc = "config"
  /\ pc = [t \in Threads |-> "idle"]
  /\ outcome = [t \in Threads |-> "none"]
  /\ att = [t \in Threads |-> 0]
  /\ send_result = [t \in Threads |-> "none"]
  /\ err_logged = [t \in Threads |-> FALSE]
  /\ sent_to = [t \in Threads |-> Absent]
  /\ sent_text = [t \in Threads |-> "none"]
  /\ http_resp = [t \in HttpThreads |-> "none"]
  /\ job_error_logged = FALSE
  /\ wh = [t \in WebhookThreads |-> WhIdle]
  /\ init_steps = <<>>
  /\ cleanup_calls = 0
  /\ cleanup_raised = FALSE
  /\ cleanup_log = {}

\* initialize_all: init_config(); a ValueError ends the module's load
InitConfig ==
  /\ init_pc = "config"
  /\ LET c == init_config(env)
     IN  /\ BOT_TOKEN' = c.BOT_TOKEN
         /\ CHAT_ID' = c.CHAT_ID
         /\ WEBHOOK_URL' = c.WEBHOOK_URL
         /\ init_pc' = IF c.raised THEN "failed" ELSE "telegram"
  /\ init_steps' = Append(init_steps, "config")
  /\ UNCHANGED <<fvars, cvars, pvars, wh, cleanup_calls, cleanup_raised, cleanup_log, env, telegram_app, scheduler, pc, outcome, att, send_result,
                 err_logged, sent_to, sent_text, http_resp, job_error_logged>>

\* a plausible bug of init_telegram: a failure to set the webhook is not
\* caught and ends the module's load
InitTelegram_fatal_webhook ==
  /\ init_pc = "telegram"
  /\ \E loop_ok \in BOOLEAN, initialized \in BOOLEAN, webhook_set \in BOOLEAN :
       /\ webhook_set => initialized
       /\ initialized => loop_ok
       /\ telegram_app' = Some([initialized |-> initialized,
                                webhook_set |-> webhook_set,
                                loop |-> IF loop_ok THEN "closed" ELSE "none",
                                error_logged |-> FALSE])
       /\ init_pc' = IF loop_ok /\ webhook_set THEN "scheduler" ELSE "failed"
  /\ init_steps' = Append(init_steps, "telegram")
  /\ UNCHANGED <<fvars, cvars, pvars, wh, cleanup_calls, cleanup_raised, cleanup_log, env,
                 BOT_TOKEN, CHAT_ID, WEBHOOK_URL, scheduler, pc, outcome,
                 att, send_result, err_logged, sent_to, sent_text, http_resp,
                 job_error_logged>>

\* initialize_all: init_telegram(); the application is built and its event
\* loop made, which may raise (loop_ok is FALSE) and is not caught; a
\* failure of initialize() or set_webhook() is logged and swallowed
InitTelegram ==
  /\ init_pc = "telegram"
  /\ \E loop_ok \in BOOLEAN, initialized \in BOOLEAN, webhook_set \in BOOLEAN :
       /\ webhook_set => initialized
       /\ initialized => loop_ok
       /\ telegram_app' = Some([initialized |-> initialized,
                                webhook_set |-> webhook_set,
                                loop |-> IF loop_ok THEN "closed" ELSE "none",
                                error_logged |-> loop_ok /\ ~webhook_set])
       /\ init_pc' = IF loop_ok THEN "scheduler" ELSE "failed"
  /\ init_steps' = Append(init_steps, "telegram")
  /\ UNCHANGED <<fvars, cvars, pvars, wh, cleanup_calls, cleanup_raised, cleanup_log, env, BOT_TOKEN, CHAT_ID, WEBHOOK_URL, scheduler, pc, outcome,
                 att, send_result, err_logged, sent_to, sent_text, http_resp,
                 job_error_logged>>

\* initialize_all: init_scheduler(); one cron job, hourly_task, and start()
InitScheduler ==
  /\ init_pc = "scheduler"
  /\ scheduler' = Some([running |-> TRUE, jobs |-> {"hourly_task"}])
  /\ init_pc' = "startup"
  /\ init_steps' = Append(init_steps, "scheduler")
  /\ UNCHANGED <<fvars, cvars, pvars, wh, cleanup_calls, cleanup_raised, cleanup_log, env, BOT_TOKEN, CHAT_ID, WEBHOOK_URL, telegram_app, pc,
                 outcome, att, send_result, err_logged, sent_to, sent_text,
                 http_resp, job_error_logged>>

\* initialize_all: startup_task() begins on the main thread; if it raises,
\* initialize_all raises and the module's load fails
StartupTask ==
  /\ init_pc = "startup"
  /\ pc["main"] = "idle"
  /\ outcome["main"] = "none"
  /\ \E loop_ok \in BOOLEAN :
       /\ task_begin("main", "startup", loop_ok)
       /\ init_pc' = IF loop_ok THEN init_pc ELSE "failed"
  /\ init_steps' = Append(init_steps, "startup")
  /\ UNCHANGED <<fvars, cvars, pvars, wh, cleanup_calls, cleanup_raised, cleanup_log, env, BOT_TOKEN, CHAT_ID, WEBHOOK_URL, telegram_app, scheduler,
                 http_resp, job_error_logged>>

\* the scheduler's thread runs the cron job: hourly_task() begins.  One
\* instance of a job runs at a time; the executor logs a job's exception
\* and the scheduler goes on
HourlyJob ==
  /\ scheduler # Absent
  /\ scheduler[1].running
  /\ init_pc \in {"startup", "serving"}
  /\ pc["sched"] = "idle"
  /\ \E loop_ok \in BOOLEAN :
       /\ task_begin("sched", "hourly", loop_ok)
       /\ job_error_logged' = (job_error_logged \/ ~loop_ok)
  /\ UNCHANGED <<fvars, cvars, pvars, wh, lvars, env, BOT_TOKEN, CHAT_ID, WEBHOOK_URL, telegram_app, scheduler,
                 init_pc, http_resp>>

\* a plausible bug around /trigger: requests are served while the module
\* is still loading
Trigger_while_loading(t) ==
  /\ init_pc \in {"startup", "serving"}
  /\ cleanup_calls = 0
  /\ pc[t] = "idle"
  /\ \E loop_ok \in BOOLEAN :
       /\ task_begin(t, "hourly", loop_ok)
       /\ http_resp' = [http_resp EXCEPT ![t] = IF loop_ok THEN "pending" ELSE "error"]
  /\ UNCHANGED <<fvars, cvars, pvars, wh, lvars, env, BOT_TOKEN, CHAT_ID, WEBHOOK_URL, telegram_app, scheduler,
                 init_pc, job_error_logged>>

\* GET /trigger on a request thread: hourly_task() begins; an exception
\* out of it is logged and answered with a 500.  Requests are served only
\* once the module has loaded and until the process exits.
Trigger(t) ==
  /\ init_pc = "serving"
  /\ cleanup_calls = 0
  /\ pc[t] = "idle"
  /\ \E loop_ok \in BOOLEAN :
       /\ task_begin(t, "hourly", loop_ok)
       /\ http_resp' = [http_resp EXCEPT ![t] = IF loop_ok THEN "pending" ELSE "error"]
  /\ UNCHANGED <<fvars, cvars, pvars, wh, lvars, env, BOT_TOKEN, CHAT_ID, WEBHOOK_URL, telegram_app, scheduler,
                 init_pc, job_error_logged>>

\* loop.run_until_complete(send_telegram_message(message))
SendTelegramMessage(t) ==
  /\ pc[t] = "send"
  /\ \E d1 \in BOOLEAN, d2 \in BOOLEAN :
       LET r == send_telegram_message(CHAT_ID, <<d1, d2>>)
       IN  /\ att' = [att EXCEPT ![t] = att[t] + r.attempts]
           /\ send_result' = [send_result EXCEPT ![t] = IF r.success THEN "ok" ELSE "fail"]
           /\ err_logged' = [err_logged EXCEPT ![t] = r.error_logged]
           /\ sent_to' = [sent_to EXCEPT ![t] = r.to]
  /\ pc' = [pc EXCEPT ![t] = "close"]
  /\ UNCHANGED <<fvars, cvars, pvars, wh, lvars, env, BOT_TOKEN, CHAT_ID, WEBHOOK_URL, telegram_app, scheduler,
                 init_pc, outcome, sent_text, http_resp, job_error_logged>>

\* a plausible bug around /trigger: the route reports whether the message
\* was delivered
TaskReturn_reports_delivery(t) ==
  /\ pc[t] = "close"
  /\ pc' = [pc EXCEPT ![t] = "idle"]
  /\ outcome' = [outcome EXCEPT ![t] = "returned"]
  /\ init_pc' = IF t = "main" THEN "serving" ELSE init_pc
  /\ http_resp' = IF t \in HttpThreads
                  THEN [http_resp EXCEPT ![t] =
                          IF send_result[t] = "ok" THEN "success" ELSE "error"]
                  ELSE http_resp
  /\ UNCHANGED <<fvars, cvars, pvars, wh, lvars, env, BOT_TOKEN, CHAT_ID, WEBHOOK_URL, telegram_app, scheduler,
                 att, send_result, err_logged, sent_to, sent_text,
                 job_error_logged>>

\* finally: loop.close(), and the task returns to its caller: initialize_all
\* goes on to serve, /trigger answers success, the scheduler's job is done
TaskReturn(t) ==
  /\ pc[t] = "close"
  /\ pc' = [pc EXCEPT ![t] = "idle"]
  /\ outcome' = [outcome EXCEPT ![t] = "returned"]
  /\ init_pc' = IF t = "main" THEN "serving" ELSE init_pc
  /\ http_resp' = IF t \in HttpThreads
                  THEN [http_resp EXCEPT ![t] = "success"] ELSE http_resp
  /\ UNCHANGED <<fvars, cvars, pvars, wh, lvars, env, BOT_TOKEN, CHAT_ID, WEBHOOK_URL, telegram_app, scheduler,
                 att, send_result, err_logged, sent_to, sent_text,
                 job_error_logged>>

(***************************************************************************)
(* bot.py: the /webhook route and test_command                             *)
(***************************************************************************)
\* the bodies Telegram may post: one that is no update, and the commands
Updates == {"malformed", "/test", "/status"}

\* POST /webhook on a request thread, up to the inner try: Update.de_json
\* and asyncio.new_event_loop(), either of which may raise into the
\* route's except
WebhookBegin(t) ==
  /\ init_pc = "serving"
  /\ cleanup_calls = 0
  /\ wh[t].pc = "idle"
  /\ \E u \in Updates, loop_ok \in BOOLEAN :
       wh' = [wh EXCEPT ![t] =
                IF u = "malformed" \/ ~loop_ok
                THEN [WhIdle EXCEPT !.pc = "except", !.cmd = u, !.exc = TRUE]
                ELSE [WhIdle EXCEPT !.pc = "process", !.cmd = u, !.loop = "open"]]
  /\ UNCHANGED <<fvars, cvars, pvars, bvars, lvars>>

\* a reply_text of a command handler raised: the handler ends there, and
\* the library either passes the exception on or keeps it
handler_raised(w, propagates) ==
  [w EXCEPT !.pc = "finally", !.handler_err = TRUE, !.exc = propagates]

\* telegram_app.process_update(update): the library may raise itself, or it
\* runs the command's handler up to its first reply: status_command's only
\* reply, test_command's acknowledgement
ProcessUpdate(t) ==
  /\ wh[t].pc = "process"
  /\ \E lib_ok \in BOOLEAN, reply_ok \in BOOLEAN, propagates \in BOOLEAN :
       LET w == wh[t]
           first == IF w.cmd = "/test" THEN "reply:ack" ELSE "reply:status"
           called == [w EXCEPT !.log = Append(w.log, first)]
       IN  wh' = [wh EXCEPT ![t] =
                    IF ~lib_ok THEN [w EXCEPT !.pc = "finally", !.exc = TRUE]
                    ELSE IF ~reply_ok THEN handler_raised(called, propagates)
                    ELSE IF w.cmd = "/test" THEN [called EXCEPT !.pc = "test_send"]
                    ELSE [called EXCEPT !.pc = "finally"]]
  /\ UNCHANGED <<fvars, cvars, pvars, bvars, lvars>>

\* test_command: success = await send_telegram_message(message)
TestSend(t) ==
  /\ wh[t].pc = "test_send"
  /\ \E d1 \in BOOLEAN, d2 \in BOOLEAN :
       LET r == send_telegram_message(CHAT_ID, <<d1, d2>>)
           w == wh[t]
       IN  wh' = [wh EXCEPT ![t] =
                    [w EXCEPT !.pc = "test_final",
                              !.log = Append(w.log, "send"),
                              !.att = w.att + r.attempts,
                              !.send = IF r.success THEN "ok" ELSE "fail",
                              !.sent_to = r.to,
                              !.logged = r.error_logged]]
  /\ UNCHANGED <<fvars, cvars, pvars, bvars, lvars>>

\* a plausible bug of test_command: the success notice whatever the send
\* returned
test_final_reply_always_sent(success) == "reply:sent"

\* test_command: the final reply, by what the send returned
test_final_reply(success) ==
  IF success THEN "reply:sent" ELSE "reply:failed"

\* test_command: if success: reply_text(...) else: reply_text(...)
TestFinal(t) ==
  /\ wh[t].pc = "test_final"
  /\ \E reply_ok \in BOOLEAN, propagates \in BOOLEAN :
       LET w == wh[t]
           called == [w EXCEPT !.log = Append(w.log, test_final_reply(w.send = "ok"))]
       IN  wh' = [wh EXCEPT ![t] =
                    IF reply_ok THEN [called EXCEPT !.pc = "finally"]
                    ELSE handler_raised(called, propagates)]
  /\ UNCHANGED <<fvars, cvars, pvars, bvars, lvars>>

\* a plausible bug of webhook: no finally, the loop is closed only when the
\* processing returned
webhook_end_no_finally(w) ==
  [w EXCEPT !.pc = "idle",
            !.loop = IF w.loop = "open" /\ ~w.exc THEN "closed" ELSE w.loop,
            !.resp = IF w.exc THEN "500" ELSE "ok",
            !.logged = w.logged \/ w.exc]

\* the end of webhook: finally: loop.close() when the inner try was
\* entered, then {"ok": True}, or the except's log and 500
webhook_end(w) ==
  [w EXCEPT !.pc = "idle",
            !.loop = IF w.loop = "open" THEN "closed" ELSE w.loop,
            !.resp = IF w.exc THEN "500" ELSE "ok",
            !.logged = w.logged \/ w.exc]

WebhookReturn(t) ==
  /\ wh[t].pc \in {"finally", "except"}
  /\ wh' = [wh EXCEPT ![t] = webhook_end(wh[t])]
  /\ UNCHANGED <<fvars, cvars, pvars, bvars, lvars>>

(***************************************************************************)
(* bot.py: cleanup, registered with atexit                                 *)
(***************************************************************************)
\* cleanup() on a scheduler and an application: the scheduler is shut down
\* if it exists and runs; if the application exists an event loop is made,
\* which may raise (loop_ok is FALSE) outside the try, and the application
\* is shut down if it is initialized, an exception of which is logged
cleanup(sched, app, loop_ok, shutdown_ok) ==
  LET stop == sched # Absent /\ sched[1].running
      sched2 == IF stop THEN Some([sched[1] EXCEPT !.running = FALSE]) ELSE sched
      log1 == IF stop THEN {"scheduler stopped"} ELSE {}
  IN  IF app = Absent
      THEN [scheduler |-> sched2, telegram_app |-> app, raised |-> FALSE,
            log |-> log1]
      ELSE IF ~loop_ok
      THEN [scheduler |-> sched2, telegram_app |-> app, raised |-> TRUE,
            log |-> log1]
      ELSE IF ~app[1].initialized
      THEN [scheduler |-> sched2, telegram_app |-> app, raised |-> FALSE,
            log |-> log1]
      ELSE IF shutdown_ok
      THEN [scheduler |-> sched2,
            telegram_app |-> Some([app[1] EXCEPT !.initialized = FALSE]),
            raised |-> FALSE, log |-> log1 \cup {"app shutdown"}]
      ELSE [scheduler |-> sched2, telegram_app |-> app, raised |-> FALSE,
            log |-> log1 \cup {"shutdown error"}]

\* the calls of cleanup in one behaviour
MaxCleanups == 2

\* the process exits, after a failed load or while serving, with no handler
\* in progress (scheduler.shutdown() waits for a running job), and atexit
\* calls cleanup
Cleanup ==
  /\ init_pc \in {"failed", "serving"}
  /\ \A t \in Threads : pc[t] = "idle"
  /\ \A t \in WebhookThreads : wh[t].pc = "idle"
  /\ cleanup_calls < MaxCleanups
  /\ cleanup_calls' = cleanup_calls + 1
  /\ \E loop_ok \in BOOLEAN, shutdown_ok \in BOOLEAN :
       LET r == cleanup(scheduler, telegram_app, loop_ok, shutdown_ok)
       IN  /\ scheduler' = r.scheduler
           /\ telegram_app' = r.telegram_app
           /\ cleanup_raised' = r.raised
           /\ cleanup_log' = r.log
  /\ UNCHANGED <<fvars, cvars, pvars, wh, init_steps, env, BOT_TOKEN, CHAT_ID,
                 WEBHOOK_URL, init_pc, pc, outcome, att, send_result,
                 err_logged, sent_to, sent_text, http_resp, job_error_logged>>

BotNext ==
  \/ InitConfig
  \/ InitTelegram
  \/ InitScheduler
  \/ StartupTask
  \/ HourlyJob
  \/ \E t \in HttpThreads : Trigger(t)
  \/ \E t \in Threads : SendTelegramMessage(t)
  \/ \E t \in Threads : TaskReturn(t)
  \/ Cleanup

\* the bot with its /webhook route served
WebhookNext ==
  \/ InitConfig
  \/ InitTelegram
  \/ InitScheduler
  \/ StartupTask
  \/ SendTelegramMessage("main")
  \/ TaskReturn("main")
  \/ \E t \in WebhookThreads : WebhookBegin(t)
  \/ \E t \in WebhookThreads : ProcessUpdate(t)
  \/ \E t \in WebhookThreads : TestSend(t)
  \/ \E t \in WebhookThreads : TestFinal(t)
  \/ \E t \in WebhookThreads : WebhookReturn(t)

(***************************************************************************)
(* The message chunker: chunk(header, formatted_events)                    *)
(***************************************************************************)
\* A display text is a sequence of pieces, each a string s of n characters;
\* its length is the sum of its pieces' lengths.
Piece(str) == [s |-> str, n |-> Len(str)]
Block(name, length) == [s |-> name, n |-> length]

RECURSIVE text_len(_)
text_len(text) ==
  IF text = <<>> THEN 0 ELSE text[1].n + text_len(Tail(text))

\* "\n\n"
BlankLine == << Piece(<<"\n","\n">>) >>

\* "\n\n".join(texts)
RECURSIVE join(_)
join(texts) ==
  IF texts = <<>> THEN <<>>
  ELSE IF Len(texts) = 1 THEN texts[1]
  ELSE texts[1] \o BlankLine \o join(Tail(texts))

\* the longest text sent as one message, in characters
LIMIT == 4000

\* the characters of all the texts together
RECURSIVE total_len(_)
total_len(texts) ==
  IF texts = <<>> THEN 0 ELSE text_len(texts[1]) + total_len(Tail(texts))

\* a plausible bug of chunk: the blank lines are not counted
chunk_uncounted_separators(header, formatted) ==
  IF text_len(header) + total_len(formatted) <= LIMIT
  THEN << header \o BlankLine \o join(formatted) >>
  ELSE << header >> \o formatted

\* chunk(header, formatted_events): the whole as one message when it is at
\* most LIMIT characters, else the header and then each event on its own
chunk(header, formatted) ==
  LET whole == header \o BlankLine \o join(formatted)
  IN  IF text_len(whole) <= LIMIT
      THEN << whole >>
      ELSE << header >> \o formatted

MaxEvents == 3

\* headers and formatted events of given lengths, around the limit
ChunkHeaders == { << Block(<<"h">>, 20) >>, << Block(<<"h">>, 3998) >> }
ChunkTexts ==
  { << Block(<<"a">>, 10) >>,
    << Block(<<"b">>, 1988) >>,
    << Block(<<"c">>, 1989) >>,
    << Block(<<"d">>, 4001) >> }

ChunkInit ==
  /\ c_header \in ChunkHeaders
  /\ c_events \in SeqsUpTo(ChunkTexts, MaxEvents)
  /\ c_messages = <<>>
  /\ c_pc = "ready"

ChunkIdle ==
  /\ c_header = <<>>
  /\ c_events = <<>>
  /\ c_messages = <<>>
  /\ c_pc = "idle"

(***************************************************************************)
(* The event formatter: format(event)                                      *)
(***************************************************************************)
\* the characters of s at the given places are all digits
digits_at(s, places) == \A i \in places : is_digit(s[i])

\* the date parsed as ISO-8601 with UTC offset, YYYY-MM-DDTHH:MM:SS+HH:MM:
\* whether it parses, and the day and the time it encodes in its own offset
parse_date(s) ==
  IF /\ Len(s) = 25
     /\ digits_at(s, {1,2,3,4, 6,7, 9,10, 12,13, 15,16, 18,19, 21,22, 24,25})
     /\ s[5] = "-" /\ s[8] = "-" /\ s[11] = "T"
     /\ s[14] = ":" /\ s[17] = ":" /\ s[23] = ":"
     /\ s[20] \in {"+", "-"}
     /\ digits_value(SubSeq(s, 6, 7)) \in 1..12
     /\ digits_value(SubSeq(s, 9, 10)) \in 1..31
     /\ digits_value(SubSeq(s, 12, 13)) \in 0..23
     /\ digits_value(SubSeq(s, 15, 16)) \in 0..59
     /\ digits_value(SubSeq(s, 18, 19)) \in 0..59
  THEN [ok |-> TRUE, day |-> SubSeq(s, 1, 10), time |-> SubSeq(s, 12, 16)]
  ELSE [ok |-> FALSE, day |-> <<>>, time |-> <<>>]

NotAvailable == <<"N","/","A">>

\* a plausible bug of format: a date that does not parse raises
format_strict(event) ==
  LET raw == dict_get(event, "date", <<>>)
      d == parse_date(raw)
  IN  [raised |-> ~d.ok,
       text |-> << Piece(dict_get(event, "title", <<>>)),
                   Piece(d.time \o <<" ">> \o d.day),
                   Piece(dict_get(event, "impact", <<>>)),
                   Piece(dict_get(event, "forecast", NotAvailable)),
                   Piece(dict_get(event, "previous", NotAvailable)) >>]

\* format(event): title, time, impact, forecast, previous; the time is the
\* event's own local time, or the raw date when it does not parse
format(event) ==
  LET raw == dict_get(event, "date", <<>>)
      d == parse_date(raw)
  IN  [raised |-> FALSE,
       text |-> << Piece(dict_get(event, "title", <<>>)),
                   Piece(IF d.ok THEN d.time \o <<" ">> \o d.day ELSE raw),
                   Piece(dict_get(event, "impact", <<>>)),
                   Piece(dict_get(event, "forecast", NotAvailable)),
                   Piece(dict_get(event, "previous", NotAvailable)) >>]

\* every event of the batch formatted, in order; an exception of one
\* aborts the batch
format_all(evs) ==
  LET each == [i \in 1..Len(evs) |-> format(evs[i])]
  IN  IF \E i \in 1..Len(evs) : each[i].raised
      THEN [raised |-> TRUE, texts |-> <<>>]
      ELSE [raised |-> FALSE, texts |-> [i \in 1..Len(evs) |-> each[i].text]]

(***************************************************************************)
(* The daily and the weekly handler                                        *)
(***************************************************************************)
TodayHeader == << Piece(<<"t","o","d","a","y">>) >>
WeeklyHeader == << Piece(<<"w","e","e","k","l","y">>) >>
NoEventsToday == << Piece(<<"n","o"," ","e","v","e","n","t","s"," ","t","o","d","a","y">>) >>

\* the event's calendar day, in its own offset, is the invocation's day
is_today(event, today) ==
  LET d == parse_date(dict_get(event, "date", <<>>))
  IN  d.ok /\ d.day = today

\* the daily handler on the events the cache gave: what it formats and
\* what it dispatches
daily_handler(evs, today) ==
  LET kept == filter_events(evs)
      todays == SelectSeq(kept.value, LAMBDA e : is_today(e, today))
      f == format_all(todays)
  IN  IF kept.raised \/ f.raised
      THEN [raised |-> TRUE, formatted |-> <<>>, dispatched |-> <<>>]
      ELSE IF todays # <<>>
      THEN [raised |-> FALSE, formatted |-> f.texts,
            dispatched |-> chunk(TodayHeader, f.texts)]
      ELSE [raised |-> FALSE, formatted |-> <<>>,
            dispatched |-> << NoEventsToday >>]

\* the weekly handler: every filtered event, and silence when there is none
weekly_handler(evs) ==
  LET kept == filter_events(evs)
      f == format_all(kept.value)
  IN  IF kept.raised \/ f.raised
      THEN [raised |-> TRUE, formatted |-> <<>>, dispatched |-> <<>>]
      ELSE IF kept.value # <<>>
      THEN [raised |-> FALSE, formatted |-> f.texts,
            dispatched |-> chunk(WeeklyHeader, f.texts)]
      ELSE [raised |-> FALSE, formatted |-> <<>>, dispatched |-> <<>>]

\* the events of the feed, dated
D_Jan7 == <<"2","0","2","5","-","0","1","-","0","7","T","0","8",":","3","0",":","0","0","-","0","5",":","0","0">>
D_Jan8 == <<"2","0","2","5","-","0","1","-","0","8","T","1","4",":","0","0",":","0","0","+","0","1",":","0","0">>
D_Month13 == <<"2","0","2","5","-","1","3","-","0","7","T","0","8",":","3","0",":","0","0","-","0","5",":","0","0">>
D_Words == <<"t","o","m","o","r","r","o","w">>
High == <<"H","i","g","h">>

DatedPool ==
  { [country |-> "USD", title |-> <<"C","o","r","e"," ","C","P","I"," ","m","/","m">>, date |-> D_Jan7,
     impact |-> High, forecast |-> <<"0",".","3","%">>],
    [country |-> "USD", title |-> <<"c","p","i"," ","y","/","y">>, date |-> D_Jan8,
     impact |-> High],
    [country |-> "USD", title |-> <<"F","O","M","C">>, date |-> D_Words,
     impact |-> High],
    [country |-> "USD", title |-> <<"A","D","P">>, date |-> D_Month13,
     impact |-> High, previous |-> <<"1",".","2","%">>],
    [country |-> "EUR", title |-> <<"C","o","r","e"," ","C","P","I"," ","m","/","m">>, date |-> D_Jan7,
     impact |-> High],
    [country |-> "EUR", title |-> <<"E","C","B"," ","R","a","t","e"," ","D","e","c","i","s","i","o","n">>, date |-> D_Jan7,
     impact |-> High] }

\* the feeds of at most two events
PipelineFeeds ==
  { <<>> } \cup { <<e>> : e \in DatedPool }
           \cup { <<e, f>> : e \in DatedPool, f \in DatedPool }

PipelineResponses ==
  { NetworkError } \cup { HttpResponse(200, JsonBody(f)) : f \in PipelineFeeds }

\* the timer's invocations in one behaviour
MaxRuns == 1

Days == { <<"2","0","2","5","-","0","1","-","0","7">>, <<"2","0","2","5","-","0","1","-","0","9">> }

PipelineInit ==
  /\ p_today \in Days
  /\ p_handler = "none"
  /\ p_events = <<>>
  /\ p_formatted = <<>>
  /\ p_dispatched = <<>>
  /\ p_raised = FALSE
  /\ p_runs = 0

PipelineIdle ==
  /\ p_today = <<>>
  /\ p_handler = "idle"
  /\ p_events = <<>>
  /\ p_formatted = <<>>
  /\ p_dispatched = <<>>
  /\ p_raised = FALSE
  /\ p_runs = 0

\* the handler's "events = get_events()": the cache is read or refilled
CallGetEvents(r) ==
  LET g == get_events(cache_events, fetched_at, now, <<r, NetworkError>>)
  IN  /\ cache_events' = g.events
      /\ fetched_at' = g.fetched_at
      /\ result' = g.result
      /\ call_raised' = FALSE
      /\ requests_made' = g.requests
      /\ cache_status' = g.status
      /\ last_call' = "get_events"
      /\ responses' = <<r, NetworkError>>
      /\ p_events' = g.result
      /\ UNCHANGED <<now, ticks>>

\* the timer invokes the daily handler
DailyHandler ==
  /\ p_runs < MaxRuns
  /\ p_runs' = p_runs + 1
  /\ \E r \in PipelineResponses :
       /\ CallGetEvents(r)
       /\ LET h == daily_handler(p_events', p_today)
          IN  /\ p_formatted' = h.formatted
              /\ p_dispatched' = h.dispatched
              /\ p_raised' = h.raised
  /\ p_handler' = "daily"
  /\ UNCHANGED <<fvars, bvars, wh, lvars, c_header, c_events, c_messages, c_pc, p_today>>

\* the timer invokes the weekly handler
WeeklyHandler ==
  /\ p_runs < MaxRuns
  /\ p_runs' = p_runs + 1
  /\ \E r \in PipelineResponses :
       /\ CallGetEvents(r)
       /\ LET h == weekly_handler(p_events')
          IN  /\ p_formatted' = h.formatted
              /\ p_dispatched' = h.dispatched
              /\ p_raised' = h.raised
  /\ p_handler' = "weekly"
  /\ UNCHANGED <<fvars, bvars, wh, lvars, c_header, c_events, c_messages, c_pc, p_today>>

\* the dispatch of a header and formatted events: every chunk is handed to
\* the transport
Dispatch ==
  /\ c_pc = "ready"
  /\ c_messages' = chunk(c_header, c_events)
  /\ c_pc' = "done"
  /\ UNCHANGED <<fvars, cvars, bvars, wh, lvars, c_header, c_events, p_today, p_handler,
                 p_events, p_formatted, p_dispatched, p_raised, p_runs>>

\* the bot before its module is loaded, in one fixed environment
BotIdle ==
  /\ BotInit
  /\ env = [token |-> Some("123:abc"), chat |-> Some(<<"4","2">>), url |-> Absent]

\* no script is running the filter
FilterIdle ==
  /\ events = <<>>
  /\ filtered = <<>>
  /\ filter_raised = FALSE
  /\ fpc = "idle"

CacheNext == GetEvents \/ FetchEvents \/ Tick

FilterInit ==
  /\ events \in SeqsUpTo(EventPool, MaxLen)
  /\ filtered = <<>>
  /\ filter_raised = FALSE
  /\ fpc = "ready"

\* usd_filtered = filter_events(events)
FilterEvents ==
  /\ fpc = "ready"
  /\ LET r == filter_events(events)
     IN  /\ filtered' = r.value
         /\ filter_raised' = r.raised
  /\ fpc' = "done"
  /\ events' = events
  /\ UNCHANGED <<cvars, bvars, pvars, wh, lvars>>

FilterNext == FilterEvents

\* the filter script over every input
InitFilter == FilterInit /\ CacheInit /\ BotIdle /\ ChunkIdle /\ PipelineIdle
SpecFilter == InitFilter /\ [][FilterNext]_vars

\* the feed cache and the fetch under every server behaviour
InitCache == CacheInit /\ FilterIdle /\ BotIdle /\ ChunkIdle /\ PipelineIdle
SpecCache == InitCache /\ [][CacheNext]_vars

\* the bot: module load, scheduler, /trigger
Init == BotInit /\ FilterIdle /\ CacheInit /\ ChunkIdle /\ PipelineIdle
Next == BotNext
Spec == Init /\ [][Next]_vars

\* the bot serving /webhook
InitWebhook == BotInit /\ FilterIdle /\ CacheInit /\ ChunkIdle /\ PipelineIdle
SpecWebhook == InitWebhook /\ [][WebhookNext]_vars

\* the chunker over headers and events around the limit
InitChunk == ChunkInit /\ PipelineIdle /\ FilterIdle /\ CacheInit /\ BotIdle
ChunkNext == Dispatch
SpecChunk == InitChunk /\ [][ChunkNext]_vars

\* the daily and weekly handler over every feed
InitPipeline == PipelineInit /\ ChunkIdle /\ FilterIdle /\ CacheInit /\ BotIdle
PipelineNext == DailyHandler \/ WeeklyHandler
SpecPipeline == InitPipeline /\ [][PipelineNext]_vars

(***************************************************************************)
(* Properties of filter_events (SpecFilter)                                *)
(***************************************************************************)
Range(s) == { s[i] : i \in 1..Len(s) }
Count(e, s) == Cardinality({ i \in 1..Len(s) : s[i] = e })

\* the events the filter is specified to keep: country "USD" and a title
\* whose lower-cased form has a lower-cased topic as a contiguous slice
Relevant(e) ==
  /\ "country" \in DOMAIN e
  /\ e.country = "USD"
  /\ "title" \in DOMAIN e
  /\ \E n \in 1..Len(TOPICS) :
       LET topic == str_lower(TOPICS[n])
           title == str_lower(e.title)
       IN  \E k \in 1..Len(title) :
             k + Len(topic) - 1 <= Len(title)
             /\ SubSeq(title, k, k + Len(topic) - 1) = topic

\* C1: filter_events keeps an event if and only if its country is "USD" and
\* its lower-cased title contains the lower-cased form of at least one entry
\* of TOPICS; nothing else is in the result and no such event is left out.
C1_KeepsExactlyRelevant ==
  fpc = "done" =>
    \A e \in Range(events) \cup Range(filtered) :
       (e \in Range(filtered)) <=> (e \in Range(events) /\ Relevant(e))

\* a title in another case than the topic is kept while a non-USD event of
\* the same batch is dropped
C1_Witness ==
  /\ fpc = "done"
  /\ Len(events) = 2
  /\ events[1] = [country |-> "EUR", title |-> <<"C","o","r","e"," ","C","P","I"," ","m","/","m">>]
  /\ events[2] = [country |-> "USD", title |-> <<"c","p","i"," ","y","/","y">>]
  /\ filtered = << events[2] >>

\* a is b with some elements left out, the others in b's order
IsSubsequence(a, b) ==
  \E f \in [1..Len(a) -> 1..Len(b)] :
     /\ \A i \in 1..Len(a) : a[i] = b[f[i]]
     /\ \A i \in 1..Len(a), j \in 1..Len(a) : i < j => f[i] < f[j]

\* C2: the result of filter_events is a subsequence of its input, in the
\* input's order; a kept event occurs in the result as many times as in the
\* input (no deduplication, and not once per matching keyword); and the call
\* leaves the input list as it was.
C2_OrderedSubsequence ==
  [][ (fpc = "ready" /\ fpc' = "done") =>
        /\ events' = events
        /\ IsSubsequence(filtered', events)
        /\ \A e \in Range(events) :
              Count(e, filtered') = IF e \in Range(filtered')
                                    THEN Count(e, events) ELSE 0 ]_vars

\* an event matching two topics (ADP, Non-Farm Employment Change) and given
\* twice is kept twice
C2_Witness ==
  /\ fpc = "done"
  /\ Len(events) = 2
  /\ events[1] = events[2]
  /\ "title" \in DOMAIN events[1]
  /\ events[1].title = <<"A","D","P"," ","N","o","n","-","F","a","r","m"," ","E","m","p","l","o","y","m","e","n","t"," ","C","h","a","n","g","e">>
  /\ filtered = events

\* C3: an event with no title is filtered as if its title were empty: the
\* call does not raise, the event is not in the result, and the other events
\* of the batch are kept or dropped as they would be without it.
C3_MissingTitleExcluded ==
  (fpc = "done" /\ \E i \in 1..Len(events) : "title" \notin DOMAIN events[i]) =>
    /\ ~filter_raised
    /\ \A e \in Range(events) : "title" \notin DOMAIN e => e \notin Range(filtered)
    /\ filtered = SelectSeq(events, LAMBDA e : "title" \in DOMAIN e /\ Relevant(e))

\* a USD event without title is dropped and the CPI event after it is kept
C3_Witness ==
  /\ fpc = "done"
  /\ events = << [country |-> "USD"],
                 [country |-> "USD", title |-> <<"C","o","r","e"," ","C","P","I"," ","m","/","m">>] >>
  /\ filtered = << events[2] >>
  /\ ~filter_raised

(***************************************************************************)
(* Properties of the bot (Spec)                                            *)
(***************************************************************************)
\* the threads hourly_task runs on: the scheduler's, and /trigger's
HourlyThreads == {"sched"} \cup HttpThreads

\* no feed fetch was made: the fetch's state is as at the start
NoFeedFetch == requests_made = 0 /\ last_call = "none" /\ fetched_at = NEVER

C5_HandlerNeverRaises ==
  /\ outcome["sched"] # "raised"
  /\ scheduler # Absent => scheduler[1].running

\* the environments init_config must refuse: no token, no chat id, or a chat
\* id that is no integer
ConfigMissing ==
  \/ env.token \in {Absent, Some("")}
  \/ env.chat \in {Absent, Some(<<>>), Some(<<"a","b","c">>)}

\* C6: without the bot credential or the chat identifier (or with a chat
\* identifier that is no integer) the module's load fails in init_config:
\* the Telegram application is never built, the scheduler never started, no
\* task ever runs or sends, and the process never serves.
C6_ConfigFailureIsFatal ==
  ConfigMissing =>
    /\ init_pc \in {"config", "failed"}
    /\ CHAT_ID = Absent
    /\ telegram_app = Absent
    /\ scheduler = Absent
    /\ \A t \in Threads : pc[t] = "idle" /\ outcome[t] = "none" /\ att[t] = 0
    /\ \A t \in HttpThreads : http_resp[t] = "none"

\* the load has failed on a chat id that is no integer, the token given
C6_Witness ==
  /\ init_pc = "failed"
  /\ env.token = Some("123:abc")
  /\ env.chat = Some(<<"a","b","c">>)
  /\ BOT_TOKEN = env.token

\* a thread is inside a task (hourly_task or startup_task)
InTask(t) == pc[t] # "idle"

\* C7 as stated: at most one handler invocation (scheduled job, /trigger
\* run, startup task) executes at a time.
C7_AtMostOneHandler == Cardinality({ t \in Threads : InTask(t) }) <= 1

\* C7, amended: the startup task and a /trigger run never execute at the
\* same time (requests are served only once the module has loaded); the
\* scheduled job, on the scheduler's own thread, may run beside either, and
\* two /trigger runs beside each other.
C7_StartupNeverBesideTrigger ==
  \A t \in HttpThreads : ~(InTask("main") /\ InTask(t))

\* a /trigger run and the scheduled job are both inside hourly_task, after
\* the startup task returned
C7_Witness ==
  /\ outcome["main"] = "returned"
  /\ InTask("http1")
  /\ InTask("sched")

(***************************************************************************)
(* Properties of the feed cache and the fetch (SpecCache)                  *)
(***************************************************************************)
\* a step that is one call of get_events (the clock stands still in a call)
IsGetEventsStep == last_call' = "get_events" /\ ticks' = ticks

\* the server's answer is a failure: no connection, a status outside 2xx,
\* or a body that does not parse
FetchFails(r) ==
  \/ r.kind = "network_error"
  \/ r.kind = "http" /\ ~(200 <= r.status /\ r.status <= 299)
  \/ r.kind = "http" /\ ~r.body.valid

\* the cache is older than the TTL, or was never filled
Stale(f_at, t) == f_at = NEVER \/ t - f_at >= TTL

\* C8: with a cache older than the TTL and a failing fetch (network error,
\* non-2xx status, malformed body), get_events returns the empty list and
\* does not raise, leaves fetched_at and the cached events as they were, and
\* the next call still finds the cache stale.
C8_FailedFetchLeavesCache ==
  [][ (IsGetEventsStep /\ Stale(fetched_at, now) /\ FetchFails(responses'[1])) =>
        /\ result' = <<>>
        /\ ~call_raised'
        /\ fetched_at' = fetched_at
        /\ cache_events' = cache_events
        /\ Stale(fetched_at', now')
        /\ ~cache_fresh(cache_events', fetched_at', now') ]_vars

\* a filled cache, a TTL old, met an error status: the call returned nothing
C8_Witness ==
  /\ last_call = "get_events"
  /\ cache_status = "failure"
  /\ responses[1] = HttpResponse(503, JsonBody(<<>>))
  /\ cache_events # <<>>
  /\ now - fetched_at = TTL
  /\ result = <<>>

\* C9: a call made less than TTL after a successful fetch, the cache not
\* empty, returns the cached events and makes no HTTP request; two such
\* calls in a row, the network down, return the same.
C9_FreshCacheIsServed ==
  [][ (IsGetEventsStep /\ fetched_at # NEVER /\ now - fetched_at < TTL
         /\ cache_events # <<>>) =>
        /\ requests_made' = 0
        /\ result' = cache_events
        /\ cache_status' = "hit"
        /\ cache_events' = cache_events
        /\ fetched_at' = fetched_at
        /\ (last_call = "get_events" /\ cache_status = "hit") => result' = result ]_vars

\* a second before the TTL is over and with no network, the cache is served
C9_Witness ==
  /\ last_call = "get_events"
  /\ cache_status = "hit"
  /\ responses[1] = NetworkError
  /\ now - fetched_at = TTL - 1
  /\ result = cache_events
  /\ result # <<>>
  /\ requests_made = 0

\* C10: one call that fetches the feed makes at most one HTTP request, one
\* exactly when it goes to the network, whether the request succeeds or
\* fails: a failure is not retried within the call.
C10_SingleRequestPerCall ==
  /\ requests_made <= 1
  /\ last_call = "fetch_events" => requests_made = 1
  /\ cache_status \in {"miss", "failure"} => requests_made = 1
  /\ cache_status = "hit" => requests_made = 0

\* the request failed where a second one would have succeeded, and the call
\* raised after its one request
C10_Witness ==
  /\ last_call = "fetch_events"
  /\ call_raised
  /\ FetchFails(responses[1])
  /\ ~FetchFails(responses[2])
  /\ requests_made = 1


(***************************************************************************)
(* C11: when no event the handler got passes the filter, a run of the      *)
(* daily handler dispatches exactly one "no events today" message and a    *)
(* run of the weekly handler dispatches nothing.                           *)
(***************************************************************************)
NonePasses == \A i \in 1..Len(p_events) : ~Relevant(p_events[i])

C11_EmptyFilterDailyOnceWeeklySilent ==
  NonePasses =>
    /\ p_handler = "daily" => ~p_raised /\ p_dispatched = << NoEventsToday >>
    /\ p_handler = "weekly" => ~p_raised /\ p_dispatched = <<>>

\* the daily handler has run on a feed of one EUR event whose title names a
\* topic, and has sent the one notice
C11_Witness ==
  /\ p_handler = "daily"
  /\ Len(p_events) = 1
  /\ p_events[1].country = "EUR"
  /\ topic_loop(str_lower(p_events[1].title), 1)
  /\ is_today(p_events[1], p_today)
  /\ p_dispatched = << NoEventsToday >>


(***************************************************************************)
(* C12: for a header and N formatted events the dispatch sends exactly one *)
(* message when header, blank line and the events joined by blank lines    *)
(* are at most 4000 characters, and exactly 1 + N messages, the header and *)
(* then each event, when they are more.                                    *)
(***************************************************************************)
\* the characters of header, blank line, events joined by blank lines
WholeLen ==
  text_len(c_header) + 2 + total_len(c_events)
    + (IF Len(c_events) > 1 THEN 2 * (Len(c_events) - 1) ELSE 0)

ChunkCounts ==
  /\ WholeLen <= LIMIT =>
       /\ Len(c_messages) = 1
       /\ text_len(c_messages[1]) = WholeLen
  /\ WholeLen > LIMIT =>
       /\ Len(c_messages) = 1 + Len(c_events)
       /\ c_messages[1] = c_header
       /\ \A i \in 1..Len(c_events) : c_messages[i + 1] = c_events[i]

BadDates == { D_Words, D_Month13 }

\* the pieces of the messages the handler dispatched
DispatchedPieces ==
  UNION { Range(p_dispatched[k]) : k \in 1..Len(p_dispatched) }

C13_BadDateNeverAbortsBatch ==
  /\ p_handler \in {"daily", "weekly"} => ~p_raised
  /\ p_handler = "weekly" =>
       LET batch == SelectSeq(p_events, Relevant)
       IN  /\ Len(p_formatted) = Len(batch)
           /\ \A i \in 1..Len(batch) :
                /\ p_formatted[i][1].s = batch[i].title
                /\ (batch[i].date \in BadDates) <=>
                     (p_formatted[i][2].s = batch[i].date)
                /\ Range(p_formatted[i]) \subseteq DispatchedPieces

\* the weekly handler has output a batch whose first event has a date that
\* is no date and whose second has a good one
C13_Witness ==
  /\ p_handler = "weekly"
  /\ Len(p_formatted) = 2
  /\ p_events[1].date = D_Words
  /\ p_formatted[1][2].s = D_Words
  /\ p_events[2].date = D_Jan7
  /\ p_formatted[2][2].s # D_Jan7
  /\ Range(p_formatted[2]) \subseteq DispatchedPieces


(***************************************************************************)
(* C14: a manual "run now" invocation runs the fetch and the filter and    *)
(* answers the requester, not the configured chat, with the events or      *)
(* with one "no matching events" reply.                                    *)
(***************************************************************************)
\* as stated, for the run-now route of the code, GET /trigger: once it has
\* answered, the feed has been asked for and the one message of the run
\* went to another chat than the configured one
C14_RunNowFetchesAndAnswersRequester ==
  \A t \in HttpThreads :
    http_resp[t] = "success" =>
      /\ last_call = "get_events"
      /\ att[t] = 1
      /\ sent_to[t] # CHAT_ID


(***************************************************************************)
(* C15: initialize_all runs configuration, Telegram application with       *)
(* webhook registration, scheduler start, startup message, in this order;  *)
(* the startup task is run once and only with the scheduler running; a     *)
(* failure to register the webhook is logged and does not end the load,    *)
(* unlike a failure of the configuration.                                  *)
(***************************************************************************)
InitOrder == <<"config", "telegram", "scheduler", "startup">>

IsPrefix(p, q) == Len(p) <= Len(q) /\ \A i \in 1..Len(p) : p[i] = q[i]

\* init_telegram made its event loop, and initialize() or set_webhook()
\* failed
WebhookFailed ==
  /\ telegram_app # Absent
  /\ telegram_app[1].loop = "closed"
  /\ ~telegram_app[1].webhook_set

C16_WebhookOkIffNoException ==
  \A t \in WebhookThreads :
    LET w == wh[t]
    IN  /\ w.resp \in {"none", "ok", "500"}
        /\ w.resp # "none" =>
             /\ w.resp = "ok" <=> ~w.exc
             /\ w.exc => w.resp = "500" /\ w.logged
             /\ w.resp = "ok" => w.cmd # "malformed" /\ w.loop = "closed"
             /\ w.loop # "open"
        /\ w.pc = "idle" => w.loop # "open"

\* processing raised with the loop open: the request ended in a 500 and
\* its loop is closed
C16_Witness ==
  /\ wh["wh1"].resp = "500"
  /\ wh["wh1"].cmd = "/test"
  /\ wh["wh1"].log = <<"reply:ack", "send", "reply:failed">>
  /\ wh["wh1"].loop = "closed"

(***************************************************************************)
(* C17: /trigger answers success whenever hourly_task returns and a 500    *)
(* only when it raises; a failed delivery is swallowed in                  *)
(* send_telegram_message, so success is reported for it too.               *)
(***************************************************************************)
C17_TriggerReportsReturnNotDelivery ==
  \A t \in HttpThreads :
    /\ http_resp[t] = "success" <=> outcome[t] = "returned"
    /\ http_resp[t] = "error" <=> outcome[t] = "raised"
    /\ http_resp[t] = "error" => att[t] = 0
    /\ send_result[t] = "fail" => http_resp[t] \in {"pending", "success"}

\* /trigger has answered success though the heartbeat was not delivered
C17_Witness ==
  /\ http_resp["http1"] = "success"
  /\ send_result["http1"] = "fail"
  /\ err_logged["http1"]

(***************************************************************************)
(* C18: a /test command replies in a fixed order: the acknowledgement,     *)
(* then exactly one send attempt to the configured chat, then exactly one  *)
(* final reply, the success notice if the send returned true and the       *)
(* failure notice if it returned false.                                    *)
(***************************************************************************)
\* the /test commands whose handler ran and whose request has finished
TestDone(t) ==
  /\ wh[t].cmd = "/test"
  /\ wh[t].resp # "none"
  /\ wh[t].log # <<>>

\* acknowledgement, send and the final reply that fits the send
FullRun(w) ==
  /\ w.log = <<"reply:ack", "send",
               IF w.send = "ok" THEN "reply:sent" ELSE "reply:failed">>
  /\ w.send \in {"ok", "fail"}
  /\ w.att = 1
  /\ w.sent_to = CHAT_ID

\* as stated: never neither
C18_AckSendFinalAlways == \A t \in WebhookThreads : TestDone(t) => FullRun(wh[t])

\* amended: unless the acknowledgement itself raised, after which nothing
\* more is done
C18_AckSendFinalUnlessAckRaises ==
  \A t \in WebhookThreads :
    /\ wh[t].att <= 1
    /\ TestDone(t) =>
         \/ FullRun(wh[t])
         \/ /\ wh[t].handler_err
            /\ wh[t].log = <<"reply:ack">>
            /\ wh[t].att = 0
            /\ wh[t].send = "none"
    /\ (TestDone(t) /\ ~wh[t].handler_err) => FullRun(wh[t])

\* the send of a /test returned false and the failure notice was the one
\* final reply
C18_Witness ==
  /\ TestDone("wh2")
  /\ ~wh["wh2"].handler_err
  /\ wh["wh2"].send = "fail"
  /\ wh["wh2"].log[3] = "reply:failed"


(***************************************************************************)
(* C19: cleanup never raises, stops the scheduler only if it exists and    *)
(* runs, shuts the application down only if it exists and is initialized,  *)
(* does nothing after a load that failed before either was made, changes   *)
(* nothing when called a second time, and no scheduled job runs after it.  *)
(***************************************************************************)
C19_CleanupNeverRaisesIdempotent ==
  cleanup_calls > 0 =>
    /\ ~cleanup_raised
    /\ scheduler # Absent => ~scheduler[1].running
    /\ pc["sched"] = "idle"
    /\ (telegram_app = Absent /\ scheduler = Absent) => cleanup_log = {}
    /\ cleanup_calls > 1 => cleanup_log = {}

====
